---- MODULE Spec2Model ----
(***************************************************************************)
(* Authentication gateway of sci.platformai.org: session tokens (auth.py), *)
(* SSO exchange (auth.py), the users table (database.py) and the request   *)
(* handlers (app.py).  Each worker process serves one request at a time;   *)
(* the users table is shared between the workers, and a handler's database *)
(* statements are the points at which another worker can interleave.       *)
(***************************************************************************)
EXTENDS Integers, Sequences, FiniteSets, TLC

\* ------------------------------------------------------------------------
\* Bounds of the model
\* ------------------------------------------------------------------------
MaxRequests == 2      \* requests accepted in one behaviour
MaxTicks == 2         \* clock advances in one behaviour

Procs == {"w1", "w2"} \* worker processes sharing the users table

\* ------------------------------------------------------------------------
\* Python values.  A value that may be None, a string, a number, a dict or
\* a list is a record tagged by its only field, so that values of different
\* types compare unequal.  user_id, sso_token and timestamps are always
\* str / int in the code and are kept bare.
\* ------------------------------------------------------------------------
None == [none |-> TRUE]
S(v) == [s |-> v]
N(v) == [n |-> v]
D(v) == [d |-> v]
L(v) == [l |-> v]
NotJson == [notjson |-> TRUE]
EmptyDict == << >>

IsNone(v) == "none" \in DOMAIN v
IsStr(v) == "s" \in DOMAIN v
IsNum(v) == "n" \in DOMAIN v
IsDict(v) == "d" \in DOMAIN v
IsList(v) == "l" \in DOMAIN v

\* bool(v)
Truthy(v) ==
    IF IsStr(v) THEN v.s # ""
    ELSE IF IsNum(v) THEN v.n # 0
    ELSE IF IsDict(v) THEN DOMAIN v.d # {}
    ELSE IF IsList(v) THEN Len(v.l) > 0
    ELSE FALSE

\* a or b
Or(a, b) == IF Truthy(a) THEN a ELSE b

\* d.get(k, default) on a dict d (a function from keys to values)
Get(d, k, default) == IF k \in DOMAIN d THEN d[k] ELSE default

\* str(v)
PyStr(v) ==
    IF IsStr(v) THEN v.s
    ELSE IF IsNum(v) THEN ToString(v.n)
    ELSE IF IsNone(v) THEN "None"
    ELSE "<repr>"

\* ------------------------------------------------------------------------
\* Strings the handlers transform character by character: a username is a
\* sequence of one-character strings.
\* ------------------------------------------------------------------------
RECURSIVE Join(_)
Join(cs) == IF cs = << >> THEN "" ELSE Head(cs) \o Join(Tail(cs))

RECURSIVE LStrip(_)
LStrip(cs) == IF cs # << >> /\ Head(cs) = " " THEN LStrip(Tail(cs)) ELSE cs

RECURSIVE RStrip(_)
RStrip(cs) ==
    IF cs # << >> /\ cs[Len(cs)] = " " THEN RStrip(SubSeq(cs, 1, Len(cs) - 1)) ELSE cs

\* str.strip()
Strip(cs) == RStrip(LStrip(cs))

\* str.lower()
LowerChar(c) == IF c = "A" THEN "a" ELSE IF c = "B" THEN "b" ELSE c
Lower(cs) == [i \in 1..Len(cs) |-> LowerChar(cs[i])]

\* str.replace(' ', '_')
ReplaceSpace(cs) == [i \in 1..Len(cs) |-> IF cs[i] = " " THEN "_" ELSE cs[i]]

\* f"local_{username.lower().replace(' ', '_')}"
LocalUserId(username) == "local_" \o Join(ReplaceSpace(Lower(username)))

\* ------------------------------------------------------------------------
\* auth.py: configuration
\* ------------------------------------------------------------------------
JWT_SECRET == "sci_jwt_s3cr3t_k3y_ch4ng3_m3"
JWT_ALGORITHM == "HS256"
JWT_EXPIRY == 60 * 60 * 24 * 7

\* hashlib.sha256(password.encode()).hexdigest(): a digest is determined by
\* the password and is no password, SSO token or name itself.
hash_password(password) == "sha256:" \o password

\* ------------------------------------------------------------------------
\* auth.py: session tokens.  jwt.encode / jwt.decode are the PyJWT calls the
\* code makes: a token is a header algorithm, a claim set and a MAC over
\* both under the signing key; anything else a client sends is a raw string.
\* ------------------------------------------------------------------------
Mac(key, alg, payload) == [k |-> key, a |-> alg, m |-> payload]

jwt_encode(payload, key, alg) ==
    [alg |-> alg, payload |-> payload, sig |-> Mac(key, alg, payload)]

IsJws(token) == "sig" \in DOMAIN token

\* create_jwt reads the clock twice: t1 for "iat", t2 for "exp".
create_jwt(user_id, user_name, role, t1, t2) ==
    jwt_encode([sub |-> user_id, name |-> user_name, role |-> role,
                iat |-> t1, exp |-> t2 + JWT_EXPIRY],
               JWT_SECRET, JWT_ALGORITHM)

\* The exception classes of PyJWT that jwt.decode raises, with their bases.
ExcParent(e) ==
    CASE e = "InvalidSignatureError" -> "DecodeError"
      [] e = "DecodeError" -> "InvalidTokenError"
      [] e = "ExpiredSignatureError" -> "InvalidTokenError"
      [] e = "ImmatureSignatureError" -> "InvalidTokenError"
      [] e = "InvalidAlgorithmError" -> "InvalidTokenError"
      [] e = "InvalidTokenError" -> "PyJWTError"
      [] OTHER -> "Exception"

RECURSIVE IsInstance(_, _)
IsInstance(e, cls) ==
    IF e = cls THEN TRUE
    ELSE IF e = "Exception" THEN FALSE
    ELSE IsInstance(ExcParent(e), cls)

\* jwt.decode(token, key, algorithms=[...]) at clock reading t: the claim
\* set, or the exception raised.  Segments, then the header algorithm, then
\* the signature, then "iat" and "exp" (leeway 0).
jwt_decode(token, key, algorithms, t) ==
    IF ~IsJws(token) THEN [exc |-> "DecodeError"]
    ELSE IF token.alg \notin algorithms THEN [exc |-> "InvalidAlgorithmError"]
    ELSE IF token.sig # Mac(key, token.alg, token.payload)
        THEN [exc |-> "InvalidSignatureError"]
    ELSE IF token.payload.iat > t THEN [exc |-> "ImmatureSignatureError"]
    ELSE IF token.payload.exp <= t THEN [exc |-> "ExpiredSignatureError"]
    ELSE [payload |-> token.payload]

\* verify_jwt with except clauses that catch decoding errors only
VerifyCatchesDecodeOnly == <<"DecodeError">>

\* The except clauses of verify_jwt, in order.
VerifyCatches == <<"ExpiredSignatureError", "InvalidTokenError">>

Caught(e, clauses) == \E i \in 1..Len(clauses) : IsInstance(e, clauses[i])

\* verify_jwt: the payload, None, or the exception that escapes to the caller.
verify_jwt(token, t) ==
    LET r == jwt_decode(token, JWT_SECRET, {JWT_ALGORITHM}, t)
    IN IF "payload" \in DOMAIN r THEN r.payload
       ELSE IF Caught(r.exc, VerifyCatches) THEN None
       ELSE [raised |-> r.exc]

Raised(v) == "raised" \in DOMAIN v

\* _extract_jwt_from_request: the cookie if truthy, else the text after
\* "Bearer " of the Authorization header, else None.  A header is its scheme
\* prefix and the rest; the header defaults to "".
NoHeader == [scheme |-> "", rest |-> [raw |-> ""]]

TokenTruthy(token) == IsJws(token) \/ (~IsNone(token) /\ token.raw # "")

\* _extract_jwt_from_request looking at the Authorization header first
extract_header_first(request) ==
    IF request.auth.scheme = "Bearer " THEN request.auth.rest
    ELSE IF TokenTruthy(request.cookie) THEN request.cookie
    ELSE None

\* _extract_jwt_from_request
extract_jwt_from_request(request) ==
    IF TokenTruthy(request.cookie) THEN request.cookie
    ELSE IF request.auth.scheme = "Bearer " THEN request.auth.rest
    ELSE None

\* _build_user_dict preferring the token's name and role to the record's
build_user_dict_claims_first(payload, db_user) ==
    LET user == [user_id |-> payload.sub, user_name |-> payload.name,
                 role |-> payload.role]
    IN IF IsNone(db_user) THEN user
       ELSE [user_id |-> user.user_id,
             user_name |-> Or(user.user_name, db_user.user_name),
             role |-> Or(user.role, db_user.role),
             credit |-> db_user.credit,
             token |-> db_user.token]

\* _build_user_dict
build_user_dict(payload, db_user) ==
    LET user == [user_id |-> payload.sub, user_name |-> payload.name,
                 role |-> payload.role]
    IN IF IsNone(db_user) THEN user
       ELSE [user_id |-> user.user_id,
             user_name |-> Or(db_user.user_name, user.user_name),
             role |-> Or(db_user.role, user.role),
             credit |-> db_user.credit,
             token |-> db_user.token]

\* ------------------------------------------------------------------------
\* auth.py: SSO exchange.  resp is what the POST to the validate endpoint
\* gives: a transport error, or a status code and a body.
\* ------------------------------------------------------------------------
\* The body of the try block of exchange_sso_token: the dict returned, None
\* on a status other than 200, or the exception raised (the transport's, the
\* one of resp.json() on a body that is no JSON, or the AttributeError of
\* .get on a value that is no dict).
exchange_try(resp) ==
    IF resp.kind = "error" THEN [exc |-> "ConnectError"]
    ELSE IF resp.status_code # 200 THEN None
    ELSE IF resp.body = NotJson THEN [exc |-> "JSONDecodeError"]
    ELSE IF ~IsDict(resp.body) THEN [exc |-> "AttributeError"]
    ELSE LET body == resp.body
             data == Or(Get(body.d, "data", None), body)
         IN IF ~IsDict(data) THEN [exc |-> "AttributeError"]
            ELSE LET user_info == Or(Get(data.d, "user_info", None), data)
                     balance == Or(Get(data.d, "balance", None), D(EmptyDict))
                 IN IF ~IsDict(user_info) \/ ~IsDict(balance)
                        THEN [exc |-> "AttributeError"]
                    ELSE [user_id |->
                              PyStr(Get(user_info.d, "user_id",
                                        Get(user_info.d, "id", S("")))),
                          user_name |->
                              Get(user_info.d, "user_name",
                                  Get(user_info.d, "name", S(""))),
                          api_key |->
                              Get(data.d, "api_key",
                                  Get(user_info.d, "api_key", S(""))),
                          credit |->
                              Get(balance.d, "credit", Get(data.d, "credit", N(0))),
                          token |->
                              Get(balance.d, "token", Get(data.d, "token", N(0))),
                          role |-> Get(user_info.d, "role", S("user"))]

\* The except clause of exchange_sso_token.
ExchangeCatches == <<"Exception">>

\* exchange_sso_token: the user info dict, None, or the exception that escapes.
exchange_sso_token(resp) ==
    LET r == exchange_try(resp)
    IN IF "exc" \in DOMAIN r
          THEN IF Caught(r.exc, ExchangeCatches) THEN None ELSE [raised |-> r.exc]
          ELSE r

\* ------------------------------------------------------------------------
\* database.py: the users table, a set of rows.  user_id is UNIQUE NOT NULL,
\* user_name is NOT NULL, id is AUTOINCREMENT (rows are never deleted).
\* ------------------------------------------------------------------------
get_user(rows, user_id) ==
    IF \E r \in rows : r.user_id = user_id
        THEN CHOOSE r \in rows : r.user_id = user_id
        ELSE None

\* an UPDATE that refreshes the entitlements only and keeps the stored token
UpdateRowEntitlementsOnly(r, user_info, sso_token, t) ==
    [r EXCEPT !.credit = Get(user_info, "credit", N(0)),
              !.token = Get(user_info, "token", N(0)),
              !.updated_at = t]

\* an UPDATE that also sets role from the exchange, as the INSERT does
UpdateRowWithRole(r, user_info, sso_token, t) ==
    [r EXCEPT !.user_name = Get(user_info, "user_name", S("")),
              !.role = Get(user_info, "role", S("user")),
              !.sso_token = sso_token,
              !.api_key = Get(user_info, "api_key", S("")),
              !.credit = Get(user_info, "credit", N(0)),
              !.token = Get(user_info, "token", N(0)),
              !.updated_at = t]

\* UPDATE users SET user_name, sso_token, api_key, credit, token, updated_at
\* WHERE user_id = ?
UpdateRow(r, user_info, sso_token, t) ==
    [r EXCEPT !.user_name = Get(user_info, "user_name", S("")),
              !.sso_token = sso_token,
              !.api_key = Get(user_info, "api_key", S("")),
              !.credit = Get(user_info, "credit", N(0)),
              !.token = Get(user_info, "token", N(0)),
              !.updated_at = t]

\* INSERT INTO users (...) VALUES (...)
InsertRow(rows, user_info, sso_token, t) ==
    [id |-> Cardinality(rows) + 1,
     user_id |-> user_info.user_id,
     user_name |-> Get(user_info, "user_name", S("")),
     role |-> Get(user_info, "role", S("user")),
     credit |-> Get(user_info, "credit", N(0)),
     token |-> Get(user_info, "token", N(0)),
     sso_token |-> sso_token,
     api_key |-> Get(user_info, "api_key", S("")),
     created_at |-> t,
     updated_at |-> t]

\* upsert_user whose statements are never committed
upsert_write_uncommitted(rows, existing, user_info, sso_token, t) ==
    [rows |-> rows]

\* upsert_user on a table whose user_id column is not declared UNIQUE
upsert_write_not_unique(rows, existing, user_info, sso_token, t) ==
    IF IsNone(Get(user_info, "user_name", S("")))
        THEN [exc |-> "IntegrityError"]
    ELSE IF existing
        THEN [rows |-> {IF r.user_id = user_info.user_id
                            THEN UpdateRow(r, user_info, sso_token, t)
                            ELSE r : r \in rows}]
    ELSE [rows |-> rows \cup {InsertRow(rows, user_info, sso_token, t)}]

\* The write of upsert_user, chosen by what its SELECT found (existing), on
\* the table as it is when the write runs: the new table, or the sqlite3
\* exception of a violated constraint.
upsert_write(rows, existing, user_info, sso_token, t) ==
    IF IsNone(Get(user_info, "user_name", S("")))
        THEN [exc |-> "IntegrityError"]       \* NOT NULL users.user_name
    ELSE IF existing
        THEN [rows |-> {IF r.user_id = user_info.user_id
                            THEN UpdateRow(r, user_info, sso_token, t)
                            ELSE r : r \in rows}]
    ELSE IF \E r \in rows : r.user_id = user_info.user_id
        THEN [exc |-> "IntegrityError"]       \* UNIQUE users.user_id
    ELSE [rows |-> rows \cup {InsertRow(rows, user_info, sso_token, t)}]

\* ------------------------------------------------------------------------
\* app.py: responses
\* ------------------------------------------------------------------------
\* RedirectResponse(location) without a cookie
Redirect(location) ==
    [status |-> 302, detail |-> location, cookie |-> None, body |-> None]

\* HTTPException(status, detail)
HttpError(status, detail) ==
    [status |-> status, detail |-> detail, cookie |-> None, body |-> None]

\* an exception no handler catches
ServerError(exc) ==
    [status |-> 500, detail |-> exc, cookie |-> None, body |-> None]

\* a response with response.set_cookie("sci_token", jwt_token, ...)
WithCookie(status, detail, body, jwt_token) ==
    [status |-> status, detail |-> detail, cookie |-> jwt_token, body |-> body]

\* tok = access_token or token or code or sso_token
FirstToken(q) ==
    IF q.access_token # "" THEN q.access_token
    ELSE IF q.token # "" THEN q.token
    ELSE IF q.code # "" THEN q.code
    ELSE q.sso_token

\* sso_callback checking only that the exchange returned something
SsoRejectedNoneOnly(ui) == IsNone(ui)

\* not user_info or not user_info.get("user_id"), of sso_callback
SsoRejected(ui) == IsNone(ui) \/ ui.user_id = ""

\* local_login comparing the stored digest with a digest of the digest
LoginMatchesRehashed(rows, user_id, username, pw_hash) ==
    {r \in rows : (r.user_id = user_id \/ r.user_name = S(username))
                  /\ r.sso_token = hash_password(pw_hash)}

\* The rows the SELECT of local_login matches.
LoginMatches(rows, user_id, username, pw_hash) ==
    {r \in rows : (r.user_id = user_id \/ r.user_name = S(username))
                  /\ r.sso_token = pw_hash}

\* local_register looking for the derived user_id only
RegisterMatchesIdOnly(rows, user_id, username) ==
    {r \in rows : r.user_id = user_id}

\* The rows the SELECT of local_register matches.
RegisterMatches(rows, user_id, username) ==
    {r \in rows : r.user_id = user_id \/ r.user_name = S(username)}

\* The two checks of local_register on its input, and the one of local_login.
MissingField(username, password) == username = << >> \/ password = ""
MIN_PASSWORD == 8
TooShortOffByOne(password) == Len(password) < MIN_PASSWORD - 1
TooShort(password) == Len(password) < MIN_PASSWORD

\* local_login telling an unknown username from a wrong password
LoginDeniedRevealing(rows, user_id, username) ==
    IF \E r \in rows : r.user_id = user_id \/ r.user_name = S(username)
        THEN HttpError(401, "Invalid password")
        ELSE HttpError(401, "Unknown username")

\* raise HTTPException(401, ...) of local_login when its SELECT matched no
\* row: the same for every table and username.
LoginDenied(rows, user_id, username) ==
    HttpError(401, "Invalid username or password")

\* ------------------------------------------------------------------------
\* Inputs: what clients and the SSO provider send
\* ------------------------------------------------------------------------
Usernames == {<<"A">>, <<"a", " ">>, <<"a", " ", "b">>, <<" ">>}
Passwords == {"", "seven77", "password", "wrongpass"}

Query(a, t, c, s) == [access_token |-> a, token |-> t, code |-> c, sso_token |-> s]
Queries == {Query("", "", "", ""), Query("t1", "", "", ""), Query("", "", "t2", "t1")}

Http(status, body) == [kind |-> "http", status_code |-> status, body |-> body]

Bodies ==
    { D([user_id |-> S("u1"), user_name |-> S("A"),
         credit |-> N(1), token |-> N(10)]),
      D([data |-> D([user_info |-> D([id |-> S("u1"), name |-> S("Ann"),
                                      role |-> S("admin")]),
                     balance |-> D([credit |-> N(2), token |-> N(20)]),
                     api_key |-> S("k2")])]),
      D([data |-> D([user_id |-> S("local_a"), user_name |-> S("A"),
                     credit |-> N(3), token |-> N(30)])]),
      D(EmptyDict),
      D([user_id |-> S(""), id |-> S("u1")]),
      D([user_id |-> None, user_name |-> S("Ann")]),
      D([id |-> N(7), user_name |-> None]),
      D([data |-> L(<<S("u1")>>)]),
      L(<<>>),
      NotJson }

Responses ==
    {[kind |-> "error"], Http(401, D(EmptyDict))} \cup {Http(200, b) : b \in Bodies}

\* Tokens no create_jwt of this process made
Garbage == [raw |-> "abc"]
ForgedPayload ==
    [sub |-> "u1", name |-> S("Eve"), role |-> S("admin"),
     iat |-> 0, exp |-> 10 * JWT_EXPIRY]
OtherKey == jwt_encode(ForgedPayload, "attacker_key", JWT_ALGORITHM)
AlgNone == [alg |-> "none", payload |-> ForgedPayload, sig |-> None]
Tampered(token) == [token EXCEPT !.payload.role = S("admin")]

Bearer(token) == [scheme |-> "Bearer ", rest |-> token]
Basic == [scheme |-> "Basic ", rest |-> [raw |-> "dXNlcg=="]]

\* Clock advances between requests: to just before and to the token lifetime
\* (create_jwt itself may see the clock advance by one second)
TickSizes == {JWT_EXPIRY - 1, JWT_EXPIRY}

\* ------------------------------------------------------------------------
\* State
\* ------------------------------------------------------------------------
VARIABLES
    now,          \* the clock, in seconds (time.time(), datetime.utcnow())
    ticks,        \* clock advances so far
    db,           \* the users table
    nreq,         \* requests accepted so far
    pc,           \* per worker: where its handler is
    req,          \* per worker: the request it is serving
    user_info,    \* per worker: user_info of sso_callback / upsert_user
    sso_token,    \* per worker: tok of sso_callback / sso_token of upsert_user
    existing,     \* per worker: what the SELECT of upsert_user found
    upsert_now,   \* per worker: now of upsert_user
    last,         \* the latest completed request and its response
    issued        \* every token create_jwt returned, with its arguments

vars == <<now, ticks, db, nreq, pc, req, user_info, sso_token, existing,
          upsert_now, last, issued>>

locals == <<user_info, sso_token, existing, upsert_now>>

NoReq == [kind |-> "none"]

Init ==
    /\ now = 0
    /\ ticks = 0
    /\ db = {}
    /\ nreq = 0
    /\ pc = [p \in Procs |-> "idle"]
    /\ req = [p \in Procs |-> NoReq]
    /\ user_info = [p \in Procs |-> None]
    /\ sso_token = [p \in Procs |-> ""]
    /\ existing = [p \in Procs |-> FALSE]
    /\ upsert_now = [p \in Procs |-> 0]
    /\ last = [n |-> 0, proc |-> "w1", req |-> NoReq, user_info |-> None,
               resp |-> None, at |-> 0]
    /\ issued = {}

\* A worker takes a request when it is idle.
Accept(p) ==
    /\ pc[p] = "idle"
    /\ nreq < MaxRequests
    /\ nreq' = nreq + 1

\* The handler of worker p awaits or enters upsert_user, with these locals.
Continue(p, at, r, ui, tok) ==
    /\ pc' = [pc EXCEPT ![p] = at]
    /\ req' = [req EXCEPT ![p] = r]
    /\ user_info' = [user_info EXCEPT ![p] = ui]
    /\ sso_token' = [sso_token EXCEPT ![p] = tok]
    /\ UNCHANGED <<existing, upsert_now, last>>

\* The handler of worker p returns response for request r; its locals are gone
\* and the worker is idle again.
Return(p, r, ui, response) ==
    /\ last' = [n |-> last.n + 1, proc |-> p, req |-> r, user_info |-> ui,
                resp |-> response, at |-> now]
    /\ pc' = [pc EXCEPT ![p] = "idle"]
    /\ req' = [req EXCEPT ![p] = NoReq]
    /\ user_info' = [user_info EXCEPT ![p] = None]
    /\ sso_token' = [sso_token EXCEPT ![p] = ""]
    /\ existing' = [existing EXCEPT ![p] = FALSE]
    /\ upsert_now' = [upsert_now EXCEPT ![p] = 0]

\* create_jwt as the handlers call it: the clock may pass a second boundary
\* between its two readings.
ClockSteps == IF ticks < MaxTicks THEN {0, 1} ELSE {0}

Mint(user_id, user_name, role, d) ==
    /\ now' = now + d
    /\ ticks' = ticks + d
    /\ issued' = issued \cup
         {[token |-> create_jwt(user_id, user_name, role, now, now + d),
           user_id |-> user_id, user_name |-> user_name, role |-> role,
           at |-> now + d]}

\* ------------------------------------------------------------------------
\* app.py: GET /sso/callback
\* ------------------------------------------------------------------------
\* sso_callback up to the await of exchange_sso_token
SsoCallback(p, q) ==
    LET r == [kind |-> "sso", query |-> q]
        tok == FirstToken(q)
    IN /\ Accept(p)
       /\ IF tok = ""
            THEN Return(p, r, None, Redirect("/login?error=No+token+received"))
            ELSE Continue(p, "exchange", r, None, tok)
       /\ UNCHANGED <<now, ticks, db, issued>>

\* The exchange answers resp; sso_callback checks the identity and enters
\* upsert_user.
SsoExchange(p, resp) ==
    LET ui == exchange_sso_token(resp)
    IN /\ pc[p] = "exchange"
       /\ IF Raised(ui)
            THEN Return(p, req[p], None, ServerError(ui.raised))
          ELSE IF SsoRejected(ui)
            THEN Return(p, req[p], ui, Redirect("/login?error=SSO+validation+failed"))
          ELSE Continue(p, "upsert_select", req[p], ui, sso_token[p])
       /\ UNCHANGED <<now, ticks, db, nreq, issued>>

\* ------------------------------------------------------------------------
\* database.py: upsert_user, statement by statement
\* ------------------------------------------------------------------------
\* now = datetime.utcnow(); existing = SELECT ... WHERE user_id = ?
UpsertSelect(p) ==
    /\ pc[p] = "upsert_select"
    /\ upsert_now' = [upsert_now EXCEPT ![p] = now]
    /\ existing' = [existing EXCEPT ![p] =
                        \E r \in db : r.user_id = user_info[p].user_id]
    /\ pc' = [pc EXCEPT ![p] = "upsert_write"]
    /\ UNCHANGED <<now, ticks, db, nreq, req, user_info, sso_token, last, issued>>

\* The UPDATE or INSERT and the commit of upsert_user, then the rest of the
\* calling handler (sso_callback or local_register): create_jwt and the
\* response with the cookie.  A constraint violation is raised through both.
UpsertWrite(p) ==
    LET ui == user_info[p]
        w == upsert_write(db, existing[p], ui, sso_token[p], upsert_now[p])
        name == Get(ui, "user_name", S(""))
        role == Get(ui, "role", S("user"))
    IN /\ pc[p] = "upsert_write"
       /\ IF "exc" \in DOMAIN w
            THEN /\ Return(p, req[p], ui, ServerError(w.exc))
                 /\ UNCHANGED <<now, ticks, db, issued>>
            ELSE /\ db' = w.rows
                 /\ \E d \in ClockSteps :
                      LET jwt_token == create_jwt(ui.user_id, name, role, now, now + d)
                      IN /\ Mint(ui.user_id, name, role, d)
                         /\ IF req[p].kind = "sso"
                              THEN Return(p, req[p], ui,
                                          WithCookie(302, "/", None, jwt_token))
                              ELSE Return(p, req[p], ui,
                                          WithCookie(200, "registered",
                                                     [user_id |-> ui.user_id,
                                                      user_name |-> name],
                                                     jwt_token))
       /\ UNCHANGED nreq

\* ------------------------------------------------------------------------
\* app.py: POST /api/auth/register
\* ------------------------------------------------------------------------
\* local_register up to the call of upsert_user
LocalRegister(p, raw_username, password) ==
    LET r == [kind |-> "register", username |-> raw_username, password |-> password]
        username == Strip(raw_username)
        pw_hash == hash_password(password)
        user_id == LocalUserId(username)
    IN /\ Accept(p)
       /\ IF MissingField(username, password)
            THEN Return(p, r, None,
                        HttpError(400, "Username and password are required"))
          ELSE IF TooShort(password)
            THEN Return(p, r, None,
                        HttpError(400, "Password must be at least 8 characters"))
          ELSE IF RegisterMatches(db, user_id, Join(username)) # {}
            THEN Return(p, r, None, HttpError(400, "Username already taken"))
          ELSE Continue(p, "upsert_select", r,
                        [user_id |-> user_id, user_name |-> S(Join(username)),
                         role |-> S("user")],
                        pw_hash)
       /\ UNCHANGED <<now, ticks, db, issued>>

\* ------------------------------------------------------------------------
\* app.py: POST /api/auth/login
\* ------------------------------------------------------------------------
LocalLogin(p, raw_username, password) ==
    LET r == [kind |-> "login", username |-> raw_username, password |-> password]
        username == Strip(raw_username)
        pw_hash == hash_password(password)
        user_id == LocalUserId(username)
        matches == LoginMatches(db, user_id, Join(username), pw_hash)
    IN /\ Accept(p)
       /\ IF MissingField(username, password)
            THEN /\ Return(p, r, None,
                           HttpError(400, "Username and password are required"))
                 /\ UNCHANGED <<now, ticks, issued>>
          ELSE IF matches = {}
            THEN /\ Return(p, r, None, LoginDenied(db, user_id, Join(username)))
                 /\ UNCHANGED <<now, ticks, issued>>
          ELSE \E user \in matches, d \in ClockSteps :
                 /\ Mint(user.user_id, user.user_name, user.role, d)
                 /\ Return(p, r, None,
                           WithCookie(200, "/",
                                      [user_id |-> user.user_id,
                                       user_name |-> user.user_name],
                                      create_jwt(user.user_id, user.user_name,
                                                 user.role, now, now + d)))
       /\ UNCHANGED db

\* ------------------------------------------------------------------------
\* app.py: GET /api/auth/me (auth.py: get_current_user)
\* ------------------------------------------------------------------------
get_current_user(request, rows, t) ==
    LET token == extract_jwt_from_request(request)
    IN IF ~TokenTruthy(token) THEN HttpError(401, "Not authenticated")
       ELSE LET payload == verify_jwt(token, t)
            IN IF Raised(payload) THEN ServerError(payload.raised)
               ELSE IF IsNone(payload)
                   THEN HttpError(401, "Invalid or expired token")
               ELSE [status |-> 200, detail |-> "ok", cookie |-> None,
                     body |-> build_user_dict(payload, get_user(rows, payload.sub))]

PresentedTokens ==
    {i.token : i \in issued} \cup {Tampered(i.token) : i \in issued}
        \cup {Garbage, OtherKey, AlgNone}

MeRequests ==
    {[cookie |-> c, auth |-> NoHeader] : c \in PresentedTokens \cup {None}}
        \cup {[cookie |-> c, auth |-> Bearer(t)] :
                c \in {None, [raw |-> ""]}, t \in PresentedTokens \cup {[raw |-> ""]}}
        \cup {[cookie |-> i.token, auth |-> h] :
                i \in issued, h \in {Bearer(Garbage), Basic}}
        \cup {[cookie |-> Garbage, auth |-> Bearer(i.token)] : i \in issued}

\* auth_me: the JSON of user_id, user_name and role of the user context its
\* dependency returned, or the dependency's HTTPException.
auth_me(request, rows, t) ==
    LET user == get_current_user(request, rows, t)
    IN IF user.status # 200 THEN user
       ELSE [user EXCEPT !.body = [user_id |-> user.body.user_id,
                                   user_name |-> user.body.user_name,
                                   role |-> user.body.role]]

\* The request, with the user context of get_current_user kept as the
\* handler's local.
AuthMe(p, request) ==
    LET r == [kind |-> "me", request |-> request]
        user == get_current_user(request, db, now)
    IN /\ Accept(p)
       /\ Return(p, r, IF user.status = 200 THEN user.body ELSE None,
                 auth_me(request, db, now))
       /\ UNCHANGED <<now, ticks, db, issued>>

\* ------------------------------------------------------------------------
\* app.py: GET /api/auth/logout
\* ------------------------------------------------------------------------
\* a logout that clears the users table
LogoutClearsDirectory(p) ==
    LET r == [kind |-> "logout"]
    IN /\ Accept(p)
       /\ Return(p, r, None, Redirect("/login"))
       /\ db' = {}
       /\ UNCHANGED <<now, ticks, issued>>

\* logout: the redirect to /login (delete_cookie is a header of the response)
Logout(p) ==
    LET r == [kind |-> "logout"]
    IN /\ Accept(p)
       /\ Return(p, r, None, Redirect("/login"))
       /\ UNCHANGED <<now, ticks, db, issued>>

\* ------------------------------------------------------------------------
\* The clock
\* ------------------------------------------------------------------------
Tick(d) ==
    /\ ticks < MaxTicks
    /\ now' = now + d
    /\ ticks' = ticks + 1
    /\ UNCHANGED <<db, nreq, pc, req, locals, last, issued>>

\* The SSO, registration and login handlers on every worker: the handlers
\* that read and write the users table, their database statements interleaved.
Next ==
    \/ \E p \in Procs, q \in Queries : SsoCallback(p, q)
    \/ \E p \in Procs, resp \in Responses : SsoExchange(p, resp)
    \/ \E p \in Procs : UpsertSelect(p)
    \/ \E p \in Procs : UpsertWrite(p)
    \/ \E p \in Procs, u \in Usernames, pw \in Passwords : LocalRegister(p, u, pw)
    \/ \E p \in Procs, u \in Usernames, pw \in Passwords : LocalLogin(p, u, pw)

Spec == Init /\ [][Next]_vars

\* One worker serving every route one request after the other, with the
\* clock advancing between requests: the life of session tokens.  The SSO
\* provider answers for one subject with two bodies or without a subject;
\* the local usernames are two spellings of one account.
SessionProcs == {"w1"}
SessionQueries == {Query("", "t1", "", "")}
SessionResponses == {r \in Responses : r.kind = "http" /\ r.body \in
                        {D(EmptyDict),
                         D([user_id |-> S("u1"), user_name |-> S("A"),
                            credit |-> N(1), token |-> N(10)]),
                         D([data |-> D([user_info |-> D([id |-> S("u1"),
                                                         name |-> S("Ann"),
                                                         role |-> S("admin")]),
                                        balance |-> D([credit |-> N(2),
                                                       token |-> N(20)]),
                                        api_key |-> S("k2")])])}}

SessionUsernames == {<<"A">>, <<"a", " ">>}
SessionPasswords == {"seven77", "password", "wrongpass"}

SessionNext ==
    \/ \E p \in SessionProcs, q \in SessionQueries : SsoCallback(p, q)
    \/ \E p \in SessionProcs, resp \in SessionResponses : SsoExchange(p, resp)
    \/ \E p \in SessionProcs : UpsertSelect(p)
    \/ \E p \in SessionProcs : UpsertWrite(p)
    \/ \E p \in SessionProcs, u \in SessionUsernames, pw \in SessionPasswords :
         LocalRegister(p, u, pw)
    \/ \E p \in SessionProcs, u \in SessionUsernames, pw \in SessionPasswords :
         LocalLogin(p, u, pw)
    \/ \E p \in SessionProcs, r \in MeRequests : AuthMe(p, r)
    \/ \E p \in SessionProcs : Logout(p)
    \/ \E d \in TickSizes : Tick(d)

SpecSession == Init /\ [][SessionNext]_vars

\* ------------------------------------------------------------------------
\* Properties
\* ------------------------------------------------------------------------
\* The token a /api/auth/me request presented, and whether it carries the MAC
\* of this process's secret over its own header and claims.
Presented(r) == extract_jwt_from_request(r.request)
CorrectlySigned(token) ==
    /\ IsJws(token)
    /\ token.alg = JWT_ALGORITHM
    /\ token.sig = Mac(JWT_SECRET, token.alg, token.payload)
LastIsMe == last.req.kind = "me" /\ TokenTruthy(Presented(last.req))

\* C1: verifying a token right after create_jwt returned it gives claims whose
\* sub, name and role are the arguments of create_jwt and whose exp is iat plus
\* 604800 seconds.
RoundTripExpiryExact ==
    \A i \in issued :
        LET claims == verify_jwt(i.token, i.at)
        IN /\ ~IsNone(claims)
           /\ ~Raised(claims)
           /\ claims.sub = i.user_id
           /\ claims.name = i.user_name
           /\ claims.role = i.role
           /\ claims.exp = claims.iat + JWT_EXPIRY

\* C2: a correctly signed token is rejected at every time at or after its
\* issued-at plus 7 * 86400 seconds, and accepted from its issued-at at every
\* time before that.
ExpiryAtIssuedPlusSevenDays ==
    (LastIsMe /\ CorrectlySigned(Presented(last.req))) =>
        LET iat == Presented(last.req).payload.iat
        IN /\ last.at >= iat + 7 * 86400 => last.resp.status = 401
           /\ (iat <= last.at /\ last.at < iat + 7 * 86400) => last.resp.status = 200

\* C3: get_current_user never sees verify_jwt raise, and a token that is
\* malformed, signed with another key or expired is answered as invalid.
Malformed(token) == ~IsJws(token)
OtherKeySigned(token) ==
    IsJws(token) /\ token.sig # Mac(JWT_SECRET, token.alg, token.payload)
Expired(token, t) == CorrectlySigned(token) /\ token.payload.exp <= t

VerifyNeverRaises ==
    LastIsMe =>
        LET token == Presented(last.req)
        IN /\ last.resp.status # 500
           /\ (Malformed(token) \/ OtherKeySigned(token) \/ Expired(token, last.at))
                => last.resp = HttpError(401, "Invalid or expired token")

\* C3 witness: an expired token of this process was presented and refused.
ExpiredTokenRefused ==
    /\ LastIsMe
    /\ Expired(Presented(last.req), last.at)
    /\ last.resp.status = 401

\* A request completes in this step (its response becomes last').
Completes == last'.n = last.n + 1

\* What the provider's answer identifies, as the callers of exchange_sso_token
\* are entitled to read it: nobody, or a subject.
NoIdentity(ui) == IsNone(ui)
EmptySubject(ui) == ~IsNone(ui) /\ ui.user_id = ""

\* C4: exchange_sso_token returns an identity only with a non-empty subject
\* id (None for every non-200 response, transport error, malformed body and
\* 200 body without a subject id), and never raises.
ExchangeIdentityHasSubject ==
    last.req.kind = "sso" =>
        /\ last.resp.status = 500 => last.resp.detail = "IntegrityError"
        /\ ~EmptySubject(last.user_info)

\* C5: an sso_callback without a token, or whose exchange gave no identity or
\* an empty subject id, ends in a redirect to /login with an error, without a
\* cookie, having written no row and minted no token; and the table is written
\* by an sso_callback only when its exchange gave a non-empty subject id.
SsoFailed(l) ==
    l.req.kind = "sso" /\ (NoIdentity(l.user_info) \/ EmptySubject(l.user_info))

FailedSsoStep ==
    (Completes /\ SsoFailed(last')) =>
        /\ last'.resp.status = 302
        /\ last'.resp.detail \in {"/login?error=No+token+received",
                                  "/login?error=SSO+validation+failed"}
        /\ IsNone(last'.resp.cookie)
        /\ db' = db
        /\ issued' = issued

WriteStep ==
    (db' # db \/ issued' # issued) =>
        \E p \in Procs :
            /\ pc'[p] = "idle"
            /\ last'.proc = p
            /\ \/ pc[p] = "idle" /\ last'.req.kind = "login" /\ db' = db
               \/ /\ pc[p] = "upsert_write"
                  /\ req[p].kind = "sso" =>
                        ~NoIdentity(user_info[p]) /\ ~EmptySubject(user_info[p])

FailedSsoWritesNothing == [][FailedSsoStep /\ WriteStep]_vars

\* C5 witness: an exchange answered 200 without a subject id and the callback
\* redirected to the login page.
EmptySubjectRedirected ==
    /\ last.req.kind = "sso"
    /\ EmptySubject(last.user_info)
    /\ last.resp = Redirect("/login?error=SSO+validation+failed")
    /\ db = {}

\* The input of local_register / local_login as the handlers read it.
ReqName(r) == Strip(r.username)
ReqUserId(r) == "local_" \o Join(ReplaceSpace(Lower(ReqName(r))))
ValidRegistration(r) ==
    ReqName(r) # << >> /\ r.password # "" /\ Len(r.password) >= 8

\* C6: a local_register(u, p) that succeeded, followed by local_login(u, p),
\* gives a successful login with the user id the registration returned, which
\* is the id derived from the normalized username.
RegisterThenLoginStep ==
    (/\ last.req.kind = "register"
     /\ last.resp.status = 200
     /\ Completes
     /\ last'.req.kind = "login"
     /\ last'.req.username = last.req.username
     /\ last'.req.password = last.req.password) =>
        /\ last'.resp.status = 200
        /\ ~IsNone(last'.resp.cookie)
        /\ last'.resp.body.user_id = last.resp.body.user_id
        /\ last.resp.body.user_id = ReqUserId(last.req)

RegisterThenLogin == [][RegisterThenLoginStep]_vars

\* C6 witness: a login succeeded for an account a registration created.
LoggedInAfterRegister ==
    /\ last.req.kind = "login"
    /\ last.resp.status = 200
    /\ last.resp.body.user_id = ReqUserId(last.req)
    /\ \E r \in db : /\ r.user_id = ReqUserId(last.req)
                     /\ r.sso_token = hash_password(last.req.password)

\* C7: a local_login that is refused for its credentials gets 401 "Invalid
\* username or password", whether or not a record of that username exists.
KnownUsername(r) ==
    \E row \in db : row.user_id = ReqUserId(r) \/ row.user_name = S(Join(ReqName(r)))

LoginFailureUniform ==
    (/\ last.req.kind = "login"
     /\ last.resp.status # 200
     /\ ReqName(last.req) # << >>
     /\ last.req.password # "") =>
        last.resp = HttpError(401, "Invalid username or password")

\* C7 witness: a login with the username of a record and a wrong password
\* was refused.
WrongPasswordRefused ==
    /\ last.req.kind = "login"
    /\ last.resp.status = 401
    /\ KnownUsername(last.req)

\* C8: local_register with an empty username, an empty password or a
\* password of fewer than 8 characters answers 400 with a validation message,
\* sets no cookie, creates no row and mints no token.
RegisterInvalidStep ==
    (Completes /\ last'.req.kind = "register" /\ ~ValidRegistration(last'.req)) =>
        /\ last'.resp.status = 400
        /\ last'.resp.detail \in {"Username and password are required",
                                  "Password must be at least 8 characters"}
        /\ IsNone(last'.resp.cookie)
        /\ db' = db
        /\ issued' = issued

RegisterInvalidInput == [][RegisterInvalidStep]_vars

\* C8 witness: a registration with a 7-character password was refused.
ShortPasswordRefused ==
    /\ last.req.kind = "register"
    /\ ReqName(last.req) # << >>
    /\ Len(last.req.password) = 7
    /\ last.resp = HttpError(400, "Password must be at least 8 characters")

\* C9: a local_register whose display name or derived user id belongs to a
\* row of the table when the handler looks for it answers 400 "Username
\* already taken" and leaves the table as it is; a registration goes on to
\* upsert_user only when no such row is there.
RegisterConflictStep ==
    /\ (/\ Completes
        /\ last'.req.kind = "register"
        /\ ValidRegistration(last'.req)
        /\ pc[last'.proc] = "idle") =>
            /\ \E row \in db : \/ row.user_id = ReqUserId(last'.req)
                               \/ row.user_name = S(Join(ReqName(last'.req)))
            /\ last'.resp = HttpError(400, "Username already taken")
            /\ db' = db
    /\ \A p \in Procs :
         (pc[p] = "idle" /\ pc'[p] = "upsert_select" /\ req'[p].kind = "register") =>
            ~\E row \in db : \/ row.user_id = ReqUserId(req'[p])
                             \/ row.user_name = S(Join(ReqName(req'[p])))

RegisterConflict == [][RegisterConflictStep]_vars

\* C9 witness: a registration was refused for the display name of a row
\* whose user id is not the one derived from it.
DisplayNameConflict ==
    /\ last.req.kind = "register"
    /\ last.resp = HttpError(400, "Username already taken")
    /\ \E row \in db : /\ row.user_name = S(Join(ReqName(last.req)))
                       /\ row.user_id # ReqUserId(last.req)
    /\ ~\E row \in db : row.user_id = ReqUserId(last.req)

\* C10: SSO logins for one subject id, however their SELECT and write
\* interleave, all succeed, and the credit and token of the stored row are
\* those of one of the logins.  (The row of the subject, if any, was written
\* by an SSO login: its sso_token is an SSO token.)
SsoTokens == {FirstToken(q) : q \in Queries} \ {""}
SuppliedPairs ==
    {<<ui.credit, ui.token>> :
        ui \in {u \in {exchange_sso_token(r) : r \in Responses} : ~IsNone(u)}}

ConcurrentSsoLoginsSucceed ==
    (/\ last.req.kind = "sso"
     /\ ~IsNone(last.user_info)
     /\ last.user_info.user_id # ""
     /\ IsStr(last.user_info.user_name)
     /\ \A row \in db : row.user_id = last.user_info.user_id =>
                            row.sso_token \in SsoTokens) =>
        /\ last.resp.status = 302
        /\ last.resp.detail = "/"
        /\ \E row \in db : /\ row.user_id = last.user_info.user_id
                           /\ <<row.credit, row.token>> \in SuppliedPairs

\* An sso_callback that ended in the redirect to "/" with the cookie.
SsoSucceeded(l) ==
    l.req.kind = "sso" /\ l.resp.status = 302 /\ l.resp.detail = "/"

\* C11: when an sso_callback succeeds, the row of the subject id its exchange
\* returned holds the user_name, api_key, credit and token of that exchange
\* and the raw token of the request as sso_token, whether the row was inserted
\* or updated, and the cookie carries a token minted for that subject id.
SsoSuccessStoresStep ==
    (Completes /\ SsoSucceeded(last')) =>
        LET ui == last'.user_info
            tok == FirstToken(last'.req.query)
        IN /\ \E row \in db' :
                /\ row.user_id = ui.user_id
                /\ row.user_name = ui.user_name
                /\ row.api_key = ui.api_key
                /\ row.credit = ui.credit
                /\ row.token = ui.token
                /\ row.sso_token = tok
           /\ IsJws(last'.resp.cookie)
           /\ last'.resp.cookie.payload.sub = ui.user_id
           /\ \E i \in issued' : /\ i.token = last'.resp.cookie
                                 /\ i.user_id = ui.user_id
                                 /\ i.at = now'

SsoSuccessStores == [][SsoSuccessStoresStep]_vars

\* C11 witness: an sso_callback succeeded for a subject whose row was there
\* before (its role is not the one this exchange returned) and the row holds
\* this exchange's values and this request's token.
SsoSuccessUpdatedRow ==
    /\ SsoSucceeded(last)
    /\ \E row \in db :
        /\ row.user_id = last.user_info.user_id
        /\ row.role # last.user_info.role
        /\ row.credit = last.user_info.credit
        /\ row.api_key = last.user_info.api_key
        /\ row.sso_token = FirstToken(last.req.query)

\* The order of roles: every elevated role is above "user", the default.
RoleRank(role) == IF role = S("user") THEN 0 ELSE 1

\* C12: in every step, whatever upsert it makes, each row that was in the
\* table is still there with a role that is not lower than it was.
RoleNotLoweredStep ==
    \A r \in db : \E r2 \in db' : /\ r2.user_id = r.user_id
                                  /\ RoleRank(r2.role) >= RoleRank(r.role)

RoleNeverDowngraded == [][RoleNotLoweredStep]_vars

\* C12 witness: an sso_callback whose exchange reported the default role
\* succeeded for a subject whose row holds an elevated role.
LowerRoleLoginKeptRole ==
    /\ SsoSucceeded(last)
    /\ last.user_info.role = S("user")
    /\ \E row \in db : /\ row.user_id = last.user_info.user_id
                       /\ row.role = S("admin")
                       /\ row.sso_token = FirstToken(last.req.query)

\* C13: the table never holds two rows of one user_id; a row, once inserted,
\* keeps its user_id and created_at; a row that a step changes gets the
\* timestamp of the upsert_user that changed it as updated_at, and a row that
\* a step inserts gets it as created_at and updated_at.
OneRowPerSubject(rows) ==
    \A r1, r2 \in rows : r1.user_id = r2.user_id => r1 = r2

DirectoryStep ==
    /\ OneRowPerSubject(db')
    /\ \A r \in db : \E r2 \in db' :
          /\ r2.id = r.id
          /\ r2.user_id = r.user_id
          /\ r2.created_at = r.created_at
          /\ r2 # r => \E p \in Procs : /\ pc[p] = "upsert_write"
                                        /\ r2.updated_at = upsert_now[p]
    /\ \A r2 \in db' : (~\E r \in db : r.id = r2.id) =>
          \E p \in Procs : /\ pc[p] = "upsert_write"
                           /\ r2.created_at = upsert_now[p]
                           /\ r2.updated_at = upsert_now[p]

DirectoryKeyAndTimestamps == [][DirectoryStep]_vars

\* C13 witness: two requests for one subject completed, the second a
\* successful sso_callback, and the one row of the subject was changed after
\* its insert.
RowUpdatedAfterInsert ==
    /\ last.n = 2
    /\ SsoSucceeded(last)
    /\ Cardinality(db) = 1
    /\ \E row \in db : /\ row.user_id = last.user_info.user_id
                       /\ row.updated_at > row.created_at

\* C14: a request whose sci_token cookie is present and non-empty is answered
\* as the same request without an Authorization header is; a request without
\* such a cookie and with a Bearer header is answered as a request carrying
\* the header's token in the cookie is; a request with neither is answered
\* 401 "Not authenticated".
CookieOnly(token) == [cookie |-> token, auth |-> NoHeader]

CookieBeforeBearer ==
    last.req.kind = "me" =>
        LET request == last.req.request
        IN /\ TokenTruthy(request.cookie) =>
                last.resp = auth_me(CookieOnly(request.cookie), db, last.at)
           /\ (~TokenTruthy(request.cookie) /\ request.auth.scheme = "Bearer ") =>
                last.resp = auth_me(CookieOnly(request.auth.rest), db, last.at)
           /\ (IsNone(request.cookie) /\ request.auth = NoHeader) =>
                last.resp = HttpError(401, "Not authenticated")

\* C14 witness: a request with a cookie that is no token and a Bearer header
\* holding a token that is valid at that time was refused as invalid.
BadCookieBeatsValidBearer ==
    /\ last.req.kind = "me"
    /\ last.req.request.cookie = Garbage
    /\ last.req.request.auth.scheme = "Bearer "
    /\ ~IsNone(verify_jwt(last.req.request.auth.rest, last.at))
    /\ last.resp = HttpError(401, "Invalid or expired token")

\* The user context that belongs to the claims of a valid token and a table:
\* the token's sub, name and role without a row of that sub; with one, the
\* row's name and role where the row has a value and the token's where it has
\* none, and the row's credit and token.
Present(v) == ~IsNone(v) /\ v # S("")

ContextOf(claims, rows) ==
    IF ~\E row \in rows : row.user_id = claims.sub
        THEN [user_id |-> claims.sub, user_name |-> claims.name, role |-> claims.role]
        ELSE LET row == CHOOSE r \in rows : r.user_id = claims.sub
             IN [user_id |-> claims.sub,
                 user_name |-> IF Present(row.user_name) THEN row.user_name
                                                         ELSE claims.name,
                 role |-> IF Present(row.role) THEN row.role ELSE claims.role,
                 credit |-> row.credit,
                 token |-> row.token]

\* C15: a request with a valid token gets the user context of the token's
\* claims and the table: as /api/auth/me answered it, and as get_current_user
\* gives it for every token minted so far that is valid now, against the table
\* as it is now and against a table without a row of the subject.
ContextFromTokenAndRecord ==
    /\ (last.req.kind = "me" /\ last.resp.status = 200) =>
          /\ last.user_info = ContextOf(Presented(last.req).payload, db)
          /\ last.resp.body.user_id = Presented(last.req).payload.sub
    /\ \A i \in issued : \A rows \in {db, {}} :
          ~IsNone(verify_jwt(i.token, now)) =>
              LET user == get_current_user(CookieOnly(i.token), rows, now)
              IN /\ user.status = 200
                 /\ user.body = ContextOf(i.token.payload, rows)

\* C15 witness: /api/auth/me answered a valid token with the credit and token
\* count of the subject's row.
ContextUsesRecord ==
    /\ last.req.kind = "me"
    /\ last.resp.status = 200
    /\ \E row \in db : /\ row.user_id = last.user_info.user_id
                       /\ last.user_info.credit = row.credit
                       /\ last.user_info.token = row.token
                       /\ row.credit # N(0)

\* C16: after every step, whatever request it served, each token minted so
\* far authenticates a request at the time reached if that time is before the
\* token's exp; a request that presented such a token was answered 200; and
\* a logout leaves the users table and the minted tokens as they were.
Unexpired(token, t) == token.payload.iat <= t /\ t < token.payload.exp

TokenStaysValidStep ==
    /\ \A i \in issued' :
          Unexpired(i.token, now') =>
              get_current_user(CookieOnly(i.token), db', now').status = 200
    /\ (Completes /\ last'.req.kind = "me"
        /\ Presented(last'.req) \in {i.token : i \in issued}
        /\ Unexpired(Presented(last'.req), now)) => last'.resp.status = 200
    /\ (Completes /\ last'.req.kind = "logout") =>
          /\ db' = db
          /\ issued' = issued
          /\ now' = now
          /\ IsNone(last'.resp.cookie)

TokenNeverRevoked == [][TokenStaysValidStep]_vars

\* C16 witness: a logout was served a second before the expiry of a token
\* minted earlier, a row is in the table, and the token still authenticates.
ValidAfterLogout ==
    /\ last.req.kind = "logout"
    /\ db # {}
    /\ \E i \in issued :
          /\ now = i.token.payload.exp - 1
          /\ get_current_user(CookieOnly(i.token), db, now).status = 200

\* The rows of local accounts: their sso_token is the digest of a password.
Digests == {hash_password(pw) : pw \in Passwords}
LocalAccounts(rows) == {r \in rows : r.sso_token \in Digests}

\* C17: a step in which an sso_callback completes, whatever subject id its
\* exchange returned, leaves the password digest of every local account as
\* it was (so that a local_login with the registered password still matches).
SsoKeepsLocalDigestStep ==
    (Completes /\ last'.req.kind = "sso") =>
        \A r \in LocalAccounts(db) :
            \E r2 \in db' : /\ r2.user_id = r.user_id
                            /\ r2.sso_token = r.sso_token
                            /\ LoginMatches(db', r.user_id, "", r.sso_token) # {}

SsoKeepsLocalDigest == [][SsoKeepsLocalDigestStep]_vars

\* C18: of the local_register requests for one normalized username, however
\* their existence check and upsert interleave, at most one succeeds: a
\* registration that succeeds finds no row of its user id registered with
\* another password, and the row then holds the digest of its password.
OneRegistrationSucceedsStep ==
    (Completes /\ last'.req.kind = "register" /\ last'.resp.status = 200) =>
        /\ ~\E r \in LocalAccounts(db) :
              /\ r.user_id = ReqUserId(last'.req)
              /\ r.sso_token # hash_password(last'.req.password)
        /\ \E r2 \in db' : /\ r2.user_id = ReqUserId(last'.req)
                           /\ r2.sso_token = hash_password(last'.req.password)

OneRegistrationSucceeds == [][OneRegistrationSucceedsStep]_vars

\* C19: in every step, each token that create_jwt returns in it, and the
\* cookie of each response that sets one, carries a sub of which the table
\* holds a row when the step is done, whichever handler minted it.
MintedForRecordStep ==
    /\ \A i \in issued' \ issued : \E row \in db' : row.user_id = i.token.payload.sub
    /\ (Completes /\ ~IsNone(last'.resp.cookie)) =>
          /\ last'.req.kind \in {"sso", "login", "register"}
          /\ \E row \in db' : row.user_id = last'.resp.cookie.payload.sub

MintedForRecord == [][MintedForRecordStep]_vars

\* C19 witness: an sso_callback for a subject without a row before it set a
\* cookie with a token minted for that subject, and the row is in the table.
SsoTokenAfterInsert ==
    /\ SsoSucceeded(last)
    /\ last.n = 1
    /\ IsJws(last.resp.cookie)
    /\ last.resp.cookie \in {i.token : i \in issued}
    /\ db # {}
    /\ \A row \in db : row.user_id = last.resp.cookie.payload.sub

====
